---- MODULE Spec2Model ----
(***************************************************************************)
(* Model of package elapsed (src/time.go): the elapsed time since a given  *)
(* time in a human readable format, with a process-wide table of           *)
(* translations.                                                           *)
(*                                                                         *)
(* Representation.                                                         *)
(*  - A language code is a sequence of characters (one-character strings), *)
(*    so that strings.TrimSpace is computed, not assumed.                  *)
(*  - A text (a translation or a returned phrase) is a sequence of tokens: *)
(*    the verb "%d", single decimal digits, and runs of other characters.  *)
(*    fmt.Sprintf and the decimal formatting of an int are computed on     *)
(*    that representation.                                                 *)
(*  - A time.Time is a number of whole seconds since the zero time; 0 is   *)
(*    the zero time.  A time.Duration is a number of whole seconds.  On    *)
(*    whole seconds the float64 computations of the source (s / 86400,     *)
(*    diff.Minutes(), math.Ceil(float64(d) / 7)) are exact, and are        *)
(*    modelled with integer division.                                      *)
(*    time.Since saturates at about 292 years; the elapsed times tried     *)
(*    stay far below that.                                                 *)
(***************************************************************************)
EXTENDS Integers, Sequences, FiniteSets, TLC

VARIABLES
    i18n,   \* the map of translations by language code (package variable)
    t,      \* the time.Time the caller asks about
    call,   \* the last call made: its name and arguments
    sel,    \* the identifier looked up and the number formatted by that call
    out,    \* the text the last call returned
    err,    \* the error the last call returned
    proc,   \* concurrent callers: position and locals of each goroutine
    fatal,  \* concurrent callers: the runtime has thrown a fatal error
    prev    \* comparing two times: what the call for the first one looked up

vars == <<i18n, t, call, sel, out, err, proc, fatal, prev>>

----------------------------------------------------------------------------
(* Bounds of the model. *)

\* The clock at the call of LocalTime, in seconds since the zero time.
Now0 == 100000000
\* The clock may advance by up to MaxDrift seconds between the two readings
\* that LocalTime makes (time.Now() and time.Since(t)).
MaxDrift == 1
\* Elapsed days 0..MaxDays are all tried.
MaxDays == 370
\* Elapsed days 1..MaxFullDays are tried at the start and at the end of the
\* day, later days at the start of the day.
MaxFullDays == 31
\* Whole years 2..MaxYears of 365 days are tried too.
MaxYears == 3
\* Magnitudes -1..MaxNb are passed to tr when it is called on its own.
MaxNb == 3

----------------------------------------------------------------------------
(* TrID: the ID of a translation (iota constants). *)

NotYet == 0
JustNow == 1
Minute == 2
Minutes == 3
Hour == 4
Hours == 5
Yesterday == 6
Day == 7
Days == 8
Week == 9
Weeks == 10
Month == 11
Months == 12
Year == 13
Years == 14

TrID == NotYet .. Years

(* Common errors; NoError is the nil error. *)
NoError == "nil"
ErrExists == "already exists"
ErrIncomplete == "missing translation"
ErrISOCode == "invalid language code"

----------------------------------------------------------------------------
(* Language codes. *)

LangDe == <<"d", "e">>
LangEn == <<"e", "n">>
LangEs == <<"e", "s">>
LangFr == <<"f", "r">>
LangIt == <<"i", "t">>
LangNl == <<"n", "l">>
LangPl == <<"p", "l">>
LangRu == <<"r", "u">>
LangEnGb == <<"e", "n", "-", "g", "b">>

(* The built-in translations.  Letters with diacritics are written as their
   base letter: the model's strings are ASCII. *)
TermsDe ==
    (NotYet :> <<"noch nicht">>) @@ (JustNow :> <<"im Moment">>) @@
    (Minute :> <<"vor ", "%d", " Minute">>) @@
    (Minutes :> <<"vor ", "%d", " Minuten">>) @@
    (Hour :> <<"vor ", "%d", " Stunde">>) @@
    (Hours :> <<"vor ", "%d", " Stunden">>) @@
    (Yesterday :> <<"gestern">>) @@
    (Day :> <<"vor ", "%d", " Tag">>) @@
    (Days :> <<"vor ", "%d", " Tagen">>) @@
    (Week :> <<"vor ", "%d", " Woche">>) @@
    (Weeks :> <<"vor ", "%d", " Wochen">>) @@
    (Month :> <<"vor ", "%d", " Monat">>) @@
    (Months :> <<"vor ", "%d", " Monaten">>) @@
    (Year :> <<"vor ", "%d", " Jahr">>) @@
    (Years :> <<"vor ", "%d", " Jahren">>)

TermsEn ==
    (NotYet :> <<"not yet">>) @@ (JustNow :> <<"just now">>) @@
    (Minute :> <<"%d", " minute ago">>) @@
    (Minutes :> <<"%d", " minutes ago">>) @@
    (Hour :> <<"%d", " hour ago">>) @@
    (Hours :> <<"%d", " hours ago">>) @@
    (Yesterday :> <<"yesterday">>) @@
    (Day :> <<"%d", " day ago">>) @@
    (Days :> <<"%d", " days ago">>) @@
    (Week :> <<"%d", " week ago">>) @@
    (Weeks :> <<"%d", " weeks ago">>) @@
    (Month :> <<"%d", " month ago">>) @@
    (Months :> <<"%d", " months ago">>) @@
    (Year :> <<"%d", " year ago">>) @@
    (Years :> <<"%d", " years ago">>)

TermsEs ==
    (NotYet :> <<"aun no">>) @@ (JustNow :> <<"al instante">>) @@
    (Minute :> <<"hace ", "%d", " minuto">>) @@
    (Minutes :> <<"hace ", "%d", " minutos">>) @@
    (Hour :> <<"hace ", "%d", " hora">>) @@
    (Hours :> <<"hace ", "%d", " horas">>) @@
    (Yesterday :> <<"ayer">>) @@
    (Day :> <<"hace ", "%d", " dia">>) @@
    (Days :> <<"hace ", "%d", " dias">>) @@
    (Week :> <<"hace ", "%d", " semana">>) @@
    (Weeks :> <<"hace ", "%d", " semanas">>) @@
    (Month :> <<"hace ", "%d", " mes">>) @@
    (Months :> <<"hace ", "%d", " meses">>) @@
    (Year :> <<"hace ", "%d", " ano">>) @@
    (Years :> <<"hace ", "%d", " anos">>)

TermsFr ==
    (NotYet :> <<"pas encore">>) @@ (JustNow :> <<"a l'instant">>) @@
    (Minute :> <<"il y a ", "%d", " minute">>) @@
    (Minutes :> <<"il y a ", "%d", " minutes">>) @@
    (Hour :> <<"il y a ", "%d", " heure">>) @@
    (Hours :> <<"il y a ", "%d", " heures">>) @@
    (Yesterday :> <<"hier">>) @@
    (Day :> <<"il y a ", "%d", " jour">>) @@
    (Days :> <<"il y a ", "%d", " jours">>) @@
    (Week :> <<"il y a ", "%d", " semaine">>) @@
    (Weeks :> <<"il y a ", "%d", " semaines">>) @@
    (Month :> <<"il y a ", "%d", " mois">>) @@
    (Months :> <<"il y a ", "%d", " mois">>) @@
    (Year :> <<"il y a ", "%d", " an">>) @@
    (Years :> <<"il y a ", "%d", " ans">>)

TermsIt ==
    (NotYet :> <<"non ancora">>) @@ (JustNow :> <<"al momento">>) @@
    (Minute :> <<"%d", " minuto fa">>) @@
    (Minutes :> <<"%d", " minuti fa">>) @@
    (Hour :> <<"%d", " ora fa">>) @@
    (Hours :> <<"%d", " ore fa">>) @@
    (Yesterday :> <<"ieri">>) @@
    (Day :> <<"da ", "%d", " giorno">>) @@
    (Days :> <<"da ", "%d", " giorni">>) @@
    (Week :> <<"da ", "%d", " settimana">>) @@
    (Weeks :> <<"da ", "%d", " settimane">>) @@
    (Month :> <<"da ", "%d", " mese">>) @@
    (Months :> <<"da ", "%d", " mesi">>) @@
    (Year :> <<"da ", "%d", " anno">>) @@
    (Years :> <<"da ", "%d", " anni">>)

TermsNl ==
    (NotYet :> <<"nog niet">>) @@ (JustNow :> <<"dit moment">>) @@
    (Minute :> <<"%d", " minuut geleden">>) @@
    (Minutes :> <<"%d", " minuten geleden">>) @@
    (Hour :> <<"%d", " uur geleden">>) @@
    (Hours :> <<"%d", " uren geleden">>) @@
    (Yesterday :> <<"gisteren">>) @@
    (Day :> <<"%d", " dag geleden">>) @@
    (Days :> <<"%d", " dagen geleden">>) @@
    (Week :> <<"%d", " weke geleden">>) @@
    (Weeks :> <<"%d", " weken geleden">>) @@
    (Month :> <<"%d", " maand geleden">>) @@
    (Months :> <<"%d", " maanden geleden">>) @@
    (Year :> <<"%d", " jaar geleden.">>) @@
    (Years :> <<"%d", " jaar geleden.">>)

TermsPl ==
    (NotYet :> <<"jeszcze nie">>) @@ (JustNow :> <<"w tej chwili">>) @@
    (Minute :> <<"%d", " minute temu">>) @@
    (Minutes :> <<"%d", " minuty temu">>) @@
    (Hour :> <<"%d", " godzine temu">>) @@
    (Hours :> <<"%d", " godziny temu">>) @@
    (Yesterday :> <<"wczoraj">>) @@
    (Day :> <<"%d", " dzien temu">>) @@
    (Days :> <<"%d", " dni temu">>) @@
    (Week :> <<"%d", " tydzien temu">>) @@
    (Weeks :> <<"%d", " tygodnie temu">>) @@
    (Month :> <<"%d", " miesiac temu">>) @@
    (Months :> <<"%d", " miesiace temu">>) @@
    (Year :> <<"%d", " rok temu">>) @@
    (Years :> <<"%d", " lata temu">>)

(* The initial value of the package variable i18n. *)
I18nInit ==
    (LangDe :> TermsDe) @@ (LangEn :> TermsEn) @@ (LangEs :> TermsEs) @@
    (LangFr :> TermsFr) @@ (LangIt :> TermsIt) @@ (LangNl :> TermsNl) @@
    (LangPl :> TermsPl)

----------------------------------------------------------------------------
(* Strings. *)

\* unicode.IsSpace, for the characters the model's codes are made of.
IsSpace(c) == c \in {" ", "\t", "\n", "\r", "\f"}

RECURSIVE TrimLeft(_)
TrimLeft(s) ==
    IF s # <<>> /\ IsSpace(Head(s)) THEN TrimLeft(Tail(s)) ELSE s

RECURSIVE TrimRight(_)
TrimRight(s) ==
    IF s # <<>> /\ IsSpace(s[Len(s)])
    THEN TrimRight(SubSeq(s, 1, Len(s) - 1))
    ELSE s

\* strings.TrimSpace
TrimSpace(s) == TrimRight(TrimLeft(s))

Digits == <<"0", "1", "2", "3", "4", "5", "6", "7", "8", "9">>

\* The decimal text of an int (how the verb %d prints it).
RECURSIVE Itoa(_)
Itoa(n) ==
    IF n < 0 THEN <<"-">> \o Itoa(0 - n)
    ELSE IF n < 10 THEN <<Digits[n + 1]>>
    ELSE Itoa(n \div 10) \o <<Digits[(n % 10) + 1]>>

HasVerb(format) == \E i \in 1 .. Len(format) : format[i] = "%d"

\* The formatted text up to the end of the format: the first verb takes the
\* operand, a later verb finds none.
RECURSIVE doPrintf(_, _, _)
doPrintf(format, n, used) ==
    IF format = <<>> THEN <<>>
    ELSE IF Head(format) = "%d"
    THEN (IF used THEN <<"%!d(MISSING)">> ELSE Itoa(n))
             \o doPrintf(Tail(format), n, TRUE)
    ELSE <<Head(format)>> \o doPrintf(Tail(format), n, used)

\* fmt.Sprintf(format, n) with one int operand: an operand that no verb
\* consumed is reported at the end of the text.
Sprintf(format, n) ==
    IF HasVerb(format)
    THEN doPrintf(format, n, FALSE)
    ELSE doPrintf(format, n, FALSE) \o <<"%!(EXTRA int=">> \o Itoa(n) \o <<")">>

\* m[k] for a Go map: the zero value (a nil map, an empty string) when the
\* key is absent.
MapGet(m, k) == IF k \in DOMAIN m THEN m[k] ELSE <<>>

\* Ceil as a truncating division would compute it.
Ceil_Floor(a, b) == a \div b

\* math.Ceil(float64(a) / b) for a >= 0, b > 0.
Ceil(a, b) == (a + b - 1) \div b

\* int(diff.Minutes()) and int(diff.Hours()) for a diff >= 0 in seconds.
DurationMinutes(diff) == diff \div 60

\* DurationHours rounding to the nearest hour.
DurationHours_Round(diff) == (diff + 1800) \div 3600

DurationHours(diff) == diff \div 3600

----------------------------------------------------------------------------
(* The functions of the package. *)

\* changeIfSing taking every nb <= 1 for a singular.
changeIfSing_Le1(id, nb) ==
    IF id = Minutes THEN (IF nb <= 1 THEN Minute ELSE Minutes)
    ELSE IF id = Hours THEN (IF nb <= 1 THEN Hour ELSE Hours)
    ELSE IF id = Months THEN (IF nb <= 1 THEN Month ELSE Months)
    ELSE IF id = Weeks THEN (IF nb <= 1 THEN Week ELSE Weeks)
    ELSE IF id = Days THEN (IF nb <= 1 THEN Day ELSE Days)
    ELSE IF id = Years THEN (IF nb <= 1 THEN Year ELSE Years)
    ELSE id

changeIfSing(id, nb) ==
    IF id = Minutes THEN (IF nb = 1 THEN Minute ELSE Minutes)
    ELSE IF id = Hours THEN (IF nb = 1 THEN Hour ELSE Hours)
    ELSE IF id = Months THEN (IF nb = 1 THEN Month ELSE Months)
    ELSE IF id = Weeks THEN (IF nb = 1 THEN Week ELSE Weeks)
    ELSE IF id = Days THEN (IF nb = 1 THEN Day ELSE Days)
    ELSE IF id = Years THEN (IF nb = 1 THEN Year ELSE Years)
    ELSE id

\* trTerms looking up the trimmed code, as AddTranslation registers it.
trTerms_Trim(lang) ==
    IF TrimSpace(lang) \in DOMAIN i18n THEN i18n[TrimSpace(lang)]
    ELSE MapGet(i18n, LangEn)

\* The table tr reads: the one of lang, or the english one as fail over.
trTerms(lang) ==
    IF lang \in DOMAIN i18n THEN i18n[lang] ELSE MapGet(i18n, LangEn)

tr(id, lang, nb) == MapGet(trTerms(lang), changeIfSing(id, nb))

\* The return statements of LocalTime, as the operands they pass on:
\*   return tr(id, lang, -1)
Plain(id) == [id |-> id, nb |-> -1, format |-> FALSE]
\*   return fmt.Sprintf(tr(id, lang, nb), nb)
Formatted(id, nb) == [id |-> id, nb |-> nb, format |-> TRUE]

\* The bodies of the last three cases of the switch, reached by their own
\* condition or by fallthrough from the case above.
caseDefault(d) ==
    LET nbYear == Ceil(d, 365) IN Formatted(Years, nbYear)

caseMonth(d) ==
    LET nbMonth == Ceil(d, 30) IN
    IF nbMonth < 12 THEN Formatted(Months, nbMonth)
    ELSE caseDefault(d)

\* caseWeek keeping a fourth week.
caseWeek_Le4(d) ==
    LET nbWeek == Ceil(d, 7) IN
    IF nbWeek <= 4 THEN Formatted(Weeks, nbWeek)
    ELSE caseMonth(d)

\* caseWeek falling through to the last case.
caseWeek_ToYear(d) ==
    LET nbWeek == Ceil(d, 7) IN
    IF nbWeek < 4 THEN Formatted(Weeks, nbWeek)
    ELSE caseDefault(d)

caseWeek(d) ==
    LET nbWeek == Ceil(d, 7) IN
    IF nbWeek < 4 THEN Formatted(Weeks, nbWeek)
    ELSE caseMonth(d)

\* IsNotYet without the test of the zero time.
IsNotYet_NoZero(tm, now1) == now1 < tm

\* t.IsZero() || time.Now().Before(t)
IsNotYet(tm, now1) == tm = 0 \/ now1 < tm

\* LocalTimeReturn without the case d == 1.
LocalTimeReturn_NoYesterday(tm, now1, now2) ==
    IF IsNotYet(tm, now1) THEN Plain(NotYet)
    ELSE LET diff == now2 - tm
             s == diff
             d == s \div 86400
         IN  IF s < 60 THEN Plain(JustNow)
             ELSE IF s < 3600 THEN Formatted(Minutes, DurationMinutes(diff))
             ELSE IF s < 86400 THEN Formatted(Hours, DurationHours(diff))
             ELSE IF d < 7 THEN Formatted(Days, d)
             ELSE IF d < 31 THEN caseWeek(d)
             ELSE IF d < 365 THEN caseMonth(d)
             ELSE caseDefault(d)

\* The return statement LocalTime(t, lang) runs, where now1 is the clock
\* read by time.Now() and now2 the clock read by time.Since(t).
LocalTimeReturn(tm, now1, now2) ==
    IF IsNotYet(tm, now1) THEN Plain(NotYet)
    ELSE LET diff == now2 - tm
             s == diff
             d == s \div 86400
         IN  IF s < 60 THEN Plain(JustNow)
             ELSE IF s < 3600 THEN Formatted(Minutes, DurationMinutes(diff))
             ELSE IF s < 86400 THEN Formatted(Hours, DurationHours(diff))
             ELSE IF d = 1 THEN Plain(Yesterday)
             ELSE IF d < 7 THEN Formatted(Days, d)
             ELSE IF d < 31 THEN caseWeek(d)
             ELSE IF d < 365 THEN caseMonth(d)
             ELSE caseDefault(d)

\* What the return statement makes of the text that tr returned.
Returned(r, text) == IF r.format THEN Sprintf(text, r.nb) ELSE text

\* LocalTime(t, lang): the text returned, with the identifier looked up and
\* the number passed on.
LocalTime(tm, lang, now1, now2) ==
    LET r == LocalTimeReturn(tm, now1, now2) IN
    [id |-> changeIfSing(r.id, r.nb), nb |-> r.nb,
     text |-> Returned(r, tr(r.id, lang, r.nb))]

Time(tm, now1, now2) == LocalTime(tm, LangEn, now1, now2)

\* AddTranslationErr without the loop over the english identifiers.
AddTranslationErr_NoLoop(lang, terms) ==
    LET code == TrimSpace(lang) IN
    IF code = <<>> THEN ErrISOCode
    ELSE IF code \in DOMAIN i18n THEN ErrExists
    ELSE NoError

\* The error AddTranslation returns.
AddTranslationErr(lang, terms) ==
    LET code == TrimSpace(lang) IN
    IF code = <<>> THEN ErrISOCode
    ELSE IF code \in DOMAIN i18n THEN ErrExists
    ELSE IF \E k \in DOMAIN MapGet(i18n, LangEn) : k \notin DOMAIN terms
    THEN ErrIncomplete
    ELSE NoError

\* AddTranslationMap writing the table before it is found incomplete.
AddTranslationMap_Early(lang, terms) ==
    IF AddTranslationErr(lang, terms) \in {NoError, ErrIncomplete}
    THEN (TrimSpace(lang) :> terms) @@ i18n
    ELSE i18n

\* The map AddTranslation leaves.
AddTranslationMap(lang, terms) ==
    IF AddTranslationErr(lang, terms) = NoError
    THEN (TrimSpace(lang) :> terms) @@ i18n
    ELSE i18n

----------------------------------------------------------------------------
(* The inputs tried. *)

\* Tables passed to AddTranslation: none (a nil map), the incomplete one and
\* the "en-gb" one of TestAddTranslation (it has no Day), and the latter
\* completed with a Day.
TermsNil == <<>>

TermsEuh == (Yesterday :> <<"euh">>)

TermsEnGb ==
    (NotYet :> <<"not yet">>) @@ (JustNow :> <<"just now">>) @@
    (Minute :> <<"1", " minute ago">>) @@
    (Minutes :> <<"%d", " minutes ago">>) @@
    (Hour :> <<"1", " hour ago">>) @@
    (Hours :> <<"%d", " hours ago">>) @@
    (Yesterday :> <<"yesterday">>) @@
    (Days :> <<"%d", " days ago">>) @@
    (Week :> <<"1", " weeks ago">>) @@
    (Weeks :> <<"%d", " weeks ago">>) @@
    (Month :> <<"1", " months ago">>) @@
    (Months :> <<"%d", " months ago">>) @@
    (Year :> <<"1", " years ago">>) @@
    (Years :> <<"%d", " years ago">>)

TermsEnGbDay == TermsEnGb @@ (Day :> <<"1", " day ago">>)

TermsTried == {TermsNil, TermsEuh, TermsEnGb, TermsEnGbDay}

LangEnGbSpaced == <<" ">> \o LangEnGb \o <<" ">>

\* Codes passed to AddTranslation and to LocalTime.
AddLangs == {<<>>, <<" ">>, LangFr, LangEnGb, LangEnGbSpaced}

QueryLangs == {LangEn, LangFr, LangRu, LangEnGb, LangEnGbSpaced}

\* Elapsed seconds below one day, around the changes of unit.
SubDay ==
    {0, 1, 59, 60, 61, 119, 120, 2400, 3599, 3600, 3601, 7199, 7200,
     10800, 86399}

\* 32 hours, and 6 days and 2 hours (TestLocalTime).
Examples == {32 * 3600, 6 * 86400 + 2 * 3600}

\* Seconds into a day of the elapsed times of one day and more.
DayRem == {0, 86399}

ElapsedTried ==
    SubDay \cup Examples
    \cup {d * 86400 + r : d \in 1 .. MaxFullDays, r \in DayRem}
    \cup {d * 86400 : d \in 1 .. MaxDays}
    \cup {(365 * y + x) * 86400 + r : y \in 2 .. MaxYears, x \in {0, 1},
                                       r \in DayRem}

\* The times asked about: the zero time, times to come and times past.
TimesTried ==
    {0} \cup {Now0 + 1, Now0 + 3600} \cup {Now0 - e : e \in ElapsedTried}

\* The clock readings of one call of LocalTime.
Clock2(now1) == now1 .. (now1 + MaxDrift)

----------------------------------------------------------------------------
(* Sequential use of the package. *)

NoCall ==
    [op |-> "none", lang |-> <<>>, terms |-> <<>>, id |-> 0, nb |-> 0,
     now |-> 0, since |-> 0]

\* No earlier call to compare with.
NoPrev == [since |-> -1, id |-> NotYet, nb |-> -1]

Procs == {1, 2}

\* A goroutine that has made no call yet.
Idle ==
    [pc |-> "idle", op |-> "none", lang |-> <<>>, terms |-> <<>>,
     ret |-> Plain(NotYet), ok |-> FALSE, ltr |-> <<>>, text |-> <<>>,
     err |-> NoError]

Init ==
    /\ i18n = I18nInit
    /\ t \in TimesTried
    /\ call = NoCall
    /\ sel = [id |-> 0, nb |-> 0]
    /\ out = <<>>
    /\ err = NoError
    /\ proc = [p \in Procs |-> Idle]
    /\ fatal = FALSE
    /\ prev = NoPrev

\* err := AddTranslation(lang, terms)
CallAddTranslation(lang, terms) ==
    /\ call' = [NoCall EXCEPT !.op = "AddTranslation", !.lang = lang,
                              !.terms = terms]
    /\ err' = AddTranslationErr(lang, terms)
    /\ i18n' = AddTranslationMap(lang, terms)
    /\ out' = <<>>
    /\ sel' = [id |-> 0, nb |-> 0]
    /\ UNCHANGED <<t, proc, fatal, prev>>

\* out := LocalTime(t, lang)
CallLocalTime(lang) ==
    \E now2 \in Clock2(Now0) :
        LET r == LocalTime(t, lang, Now0, now2) IN
        /\ call' = [NoCall EXCEPT !.op = "LocalTime", !.lang = lang,
                                  !.now = Now0, !.since = now2 - t]
        /\ out' = r.text
        /\ sel' = [id |-> r.id, nb |-> r.nb]
        /\ err' = NoError
        /\ UNCHANGED <<i18n, t, proc, fatal, prev>>

\* out := Time(t)
CallTime ==
    \E now2 \in Clock2(Now0) :
        LET r == Time(t, Now0, now2) IN
        /\ call' = [NoCall EXCEPT !.op = "Time", !.lang = LangEn,
                                  !.now = Now0, !.since = now2 - t]
        /\ out' = r.text
        /\ sel' = [id |-> r.id, nb |-> r.nb]
        /\ err' = NoError
        /\ UNCHANGED <<i18n, t, proc, fatal, prev>>

Next ==
    \/ \E lang \in AddLangs, terms \in TermsTried :
           CallAddTranslation(lang, terms)
    \/ \E lang \in QueryLangs : CallLocalTime(lang)
    \/ CallTime

Spec == Init /\ [][Next]_vars

----------------------------------------------------------------------------
(* The translation function on its own: tr(id, lang, nb) for every          *)
(* identifier and magnitudes -1 .. MaxNb.                                   *)

InitTr ==
    /\ i18n = I18nInit
    /\ t = 0
    /\ call = NoCall
    /\ sel = [id |-> 0, nb |-> 0]
    /\ out = <<>>
    /\ err = NoError
    /\ proc = [p \in Procs |-> Idle]
    /\ fatal = FALSE
    /\ prev = NoPrev

\* out := tr(id, lang, nb)
CallTr(id, lang, nb) ==
    /\ call' = [NoCall EXCEPT !.op = "tr", !.lang = lang, !.id = id,
                              !.nb = nb]
    /\ out' = tr(id, lang, nb)
    /\ sel' = [id |-> changeIfSing(id, nb), nb |-> nb]
    /\ err' = NoError
    /\ UNCHANGED <<i18n, t, proc, fatal, prev>>

NextTr ==
    \/ \E id \in TrID, lang \in QueryLangs, nb \in -1 .. MaxNb :
           CallTr(id, lang, nb)
    \/ \E lang \in AddLangs, terms \in TermsTried :
           CallAddTranslation(lang, terms)

SpecTr == InitTr /\ [][NextTr]_vars

----------------------------------------------------------------------------
(* Properties.  They are stated on the last call (call), on what it         *)
(* returned (out, err) and on what it looked up (sel).                      *)

\* The last call is LocalTime or Time.
IsQuery == call.op \in {"LocalTime", "Time"}

\* The last call is LocalTime or Time for a time that is neither the zero
\* time nor after the clock.
IsPast == IsQuery /\ t # 0 /\ t <= call.now

\* The table registered under exactly the code, the english one otherwise.
TableOf(lang) == IF lang \in DOMAIN i18n THEN i18n[lang] ELSE i18n[LangEn]

\* The last call answers in english.
InEnglish == call.lang = LangEn \/ call.lang \notin DOMAIN i18n

\* The least n with n * k >= d.
CeilOf(d, k) == CHOOSE n \in 0 .. d : n * k >= d /\ (n = 0 \/ (n - 1) * k < d)

\* C1: for the zero time and for every time after the clock, LocalTime and
\* Time return the NotYet text of the table of the code ("not yet" in
\* english), whatever the code; no other identifier is looked up.
C1_NotYet ==
    (IsQuery /\ (t = 0 \/ t > call.now)) =>
        /\ sel.id = NotYet
        /\ out = TableOf(call.lang)[NotYet]
        /\ InEnglish => out = <<"not yet">>

C1_Witness ==
    /\ call.op = "LocalTime" /\ call.lang = LangFr
    /\ t > call.now
    /\ out = <<"pas encore">>

\* C2: for an elapsed time e below 7 days, LocalTime selects JustNow when
\* e < 60, floor(e/60) minutes when 60 <= e < 3600, floor(e/3600) hours when
\* 3600 <= e < 86400, Yesterday when floor(e/86400) = 1 and floor(e/86400)
\* days otherwise.
C2_Buckets ==
    (IsPast /\ call.since < 7 * 86400) =>
        LET e == call.since IN
        /\ e < 60 => sel.id = JustNow /\ (InEnglish => out = <<"just now">>)
        /\ (60 <= e /\ e < 3600) =>
              /\ sel.id \in {Minute, Minutes}
              /\ sel.nb = e \div 60
              /\ InEnglish =>
                   out = Itoa(e \div 60) \o
                         <<IF e < 120 THEN " minute ago" ELSE " minutes ago">>
        /\ (3600 <= e /\ e < 86400) =>
              /\ sel.id \in {Hour, Hours}
              /\ sel.nb = e \div 3600
              /\ InEnglish =>
                   out = Itoa(e \div 3600) \o
                         <<IF e < 7200 THEN " hour ago" ELSE " hours ago">>
        /\ (86400 <= e /\ e < 172800) =>
              sel.id = Yesterday /\ (InEnglish => out = <<"yesterday">>)
        /\ 172800 <= e =>
              /\ sel.id = Days
              /\ sel.nb = e \div 86400
              /\ InEnglish => out = Itoa(e \div 86400) \o <<" days ago">>

C2_Witness ==
    /\ call.op = "LocalTime" /\ call.lang = LangRu
    /\ call.since = 6 * 86400 + 2 * 3600
    /\ out = <<"6", " days ago">>

\* C3: from 7 elapsed days on, LocalTime counts with a ceiling division and
\* rolls over: ceil(d/7) weeks if d < 31 and ceil(d/7) < 4, otherwise
\* ceil(d/30) months if d < 365 and ceil(d/30) < 12, otherwise ceil(d/365)
\* years; 4 weeks or more and 12 months or more are never displayed.
C3_Rollover ==
    (IsPast /\ call.since >= 7 * 86400) =>
        LET d == call.since \div 86400
            w == CeilOf(d, 7)
            m == CeilOf(d, 30)
            y == CeilOf(d, 365)
        IN
        /\ IF d < 31 /\ w < 4
           THEN sel.id = (IF w = 1 THEN Week ELSE Weeks) /\ sel.nb = w
           ELSE IF d < 365 /\ m < 12
           THEN sel.id = (IF m = 1 THEN Month ELSE Months) /\ sel.nb = m
           ELSE sel.id = (IF y = 1 THEN Year ELSE Years) /\ sel.nb = y
        /\ sel.id \in {Week, Weeks} => sel.nb < 4
        /\ sel.id \in {Month, Months} => sel.nb < 12
        /\ (InEnglish /\ d = 28) => out = <<"1", " month ago">>
        /\ (InEnglish /\ d = 360) => out = <<"1", " year ago">>
        /\ (InEnglish /\ d = 3 * 365) => out = <<"3", " years ago">>

C3_Witness ==
    /\ call.op = "LocalTime" /\ call.lang = LangRu
    /\ call.since \div 86400 = 360
    /\ out = <<"1", " year ago">>

\* C4 as claimed: 27 elapsed days are counted in weeks, fewer than 4.
C4_Original ==
    (IsPast /\ call.since \div 86400 = 27) =>
        sel.id \in {Week, Weeks} /\ sel.nb < 4

\* C4: 27 elapsed days are presented as 1 month (ceil(27/7) = 4 is not
\* below 4); 21 elapsed days are the most that are counted in weeks.
C4_Amended ==
    /\ (IsPast /\ call.since \div 86400 = 27) =>
          /\ sel.id = Month /\ sel.nb = 1
          /\ InEnglish => out = <<"1", " month ago">>
    /\ (IsPast /\ call.since \div 86400 = 21) =>
          sel.id = Weeks /\ sel.nb = 3
    /\ (IsPast /\ sel.id \in {Week, Weeks}) =>
          call.since \div 86400 \in 7 .. 21

C4_Witness ==
    /\ call.op = "LocalTime" /\ call.lang = LangEn
    /\ call.since \div 86400 = 27
    /\ out = <<"1", " month ago">>

\* C5: tr looks up the singular identifier exactly when the number is 1 and
\* the plural one for every other number, 0 included; NotYet, JustNow and
\* Yesterday are looked up unchanged.
C5_Singular ==
    call.op = "tr" =>
        /\ \A u \in {<<Minute, Minutes>>, <<Hour, Hours>>, <<Day, Days>>,
                     <<Week, Weeks>>, <<Month, Months>>, <<Year, Years>>} :
              call.id = u[2] =>
                  /\ sel.id = u[1] <=> call.nb = 1
                  /\ call.nb # 1 => sel.id = u[2]
        /\ call.id \in {NotYet, JustNow, Yesterday} => sel.id = call.id
        /\ out = TableOf(call.lang)[sel.id]

C5_Witness ==
    /\ call.op = "tr" /\ call.id = Days /\ call.nb = 0
    /\ sel.id = Days
    /\ out = <<"%d", " days ago">>

\* C6: LocalTime takes its text from the table registered under exactly the
\* code, and from the english table when there is none; for an unregistered
\* code it returns what Time returns.
C6_Fallback ==
    call.op = "LocalTime" =>
        LET tpl == TableOf(call.lang)[sel.id] IN
        /\ out = IF sel.nb = -1 THEN tpl ELSE Sprintf(tpl, sel.nb)
        /\ call.lang \notin DOMAIN i18n =>
              out = Time(t, call.now, t + call.since).text

C6_Witness ==
    /\ call.op = "LocalTime" /\ call.lang = LangEnGbSpaced
    /\ LangEnGb \in DOMAIN i18n
    /\ call.since = 60
    /\ out = <<"1", " minute ago">>

C8_Original ==
    [][(/\ call'.op = "AddTranslation"
        /\ call'.lang = LangEnGb /\ call'.terms = TermsEnGb
        /\ LangEnGb \notin DOMAIN i18n) =>
          err' = NoError /\ MapGet(i18n', LangEnGb) = TermsEnGb
    ]_vars

\* C9 as claimed: a text without a verb is returned as it is, with nothing
\* added, whatever the identifier; in a text with a verb, the verb is
\* replaced by the number.
C9_Original ==
    call.op = "LocalTime" =>
        LET tpl == TableOf(call.lang)[sel.id] IN
        /\ ~HasVerb(tpl) => out = tpl
        /\ HasVerb(tpl) =>
              \E i \in 1 .. Len(tpl) :
                  /\ tpl[i] = "%d"
                  /\ out = SubSeq(tpl, 1, i - 1) \o Itoa(sel.nb)
                               \o SubSeq(tpl, i + 1, Len(tpl))

----------------------------------------------------------------------------
(* Concurrent use of the package: each goroutine of Procs makes one call,   *)
(* AddTranslation or LocalTime, and the calls interleave statement by       *)
(* statement.  The package takes no lock, so nothing orders the accesses    *)
(* to the map i18n.  An access lasts from its Begin step to its End step.   *)
(* A read that ends while another goroutine is writing is a data race: it   *)
(* may find the map as it was, find it as the writer leaves it, or make     *)
(* the runtime throw "concurrent map read and map write"; likewise for      *)
(* two writes.                                                              *)

\* Codes and tables the goroutines pass.
ConcAddLangs == {<<" ">>, LangFr, LangEnGb}

ConcTerms == {TermsEuh, TermsEnGbDay}

ConcQueryLangs == {LangRu, LangEnGb}

\* Times the goroutines ask about: a minute ago and three days ago.
ConcTimes == {Now0 - 60, Now0 - 3 * 86400}

InitConc ==
    /\ i18n = I18nInit
    /\ t \in ConcTimes
    /\ call = NoCall
    /\ sel = [id |-> 0, nb |-> 0]
    /\ out = <<>>
    /\ err = NoError
    /\ proc = [p \in Procs |-> Idle]
    /\ fatal = FALSE
    /\ prev = NoPrev

\* The access to the map that goroutine p is in the middle of.
Access(p) ==
    IF proc[p].pc \in {"add195r", "add198r", "tr258r", "tr261r"} THEN "read"
    ELSE IF proc[p].pc = "add203w" THEN "write"
    ELSE "none"

\* The goroutines other than p that are in the middle of a write.
Writers(p) == {q \in Procs \ {p} : Access(q) = "write"}

\* The map as goroutine q, in the middle of its write, leaves it.
Written(q) == (proc[q].lang :> proc[q].terms) @@ i18n

\* What a read by p may find the map to be.
Seen(p) == {i18n} \cup {Written(q) : q \in Writers(p)}

\* go AddTranslation(lang, terms)
GoAddTranslation(p, lang, terms) ==
    /\ ~fatal /\ proc[p].pc = "idle"
    /\ proc' = [proc EXCEPT ![p] = [@ EXCEPT !.pc = "add192",
                    !.op = "AddTranslation", !.lang = lang, !.terms = terms]]
    /\ UNCHANGED <<i18n, t, call, sel, out, err, fatal, prev>>

\* if lang = strings.TrimSpace(lang); lang == "" { return ErrISOCode }
Add192(p) ==
    /\ ~fatal /\ proc[p].pc = "add192"
    /\ LET code == TrimSpace(proc[p].lang) IN
       proc' = [proc EXCEPT ![p] =
                   IF code = <<>>
                   THEN [@ EXCEPT !.pc = "done", !.lang = code,
                                  !.err = ErrISOCode]
                   ELSE [@ EXCEPT !.pc = "add195", !.lang = code]]
    /\ UNCHANGED <<i18n, t, call, sel, out, err, fatal, prev>>

\* A goroutine at pc from begins an access to the map.
Begin(p, from, to) ==
    /\ ~fatal /\ proc[p].pc = from
    /\ proc' = [proc EXCEPT ![p].pc = to]
    /\ UNCHANGED <<i18n, t, call, sel, out, err, fatal, prev>>

\* if _, ok := i18n[lang]; ok { return ErrExists }
Add195(p) ==
    /\ ~fatal /\ proc[p].pc = "add195r"
    /\ \E m \in Seen(p) :
           proc' = [proc EXCEPT ![p] =
                       IF proc[p].lang \in DOMAIN m
                       THEN [@ EXCEPT !.pc = "done", !.err = ErrExists]
                       ELSE [@ EXCEPT !.pc = "add198"]]
    /\ UNCHANGED <<i18n, t, call, sel, out, err, fatal, prev>>

\* for k := range i18n["en"] { if _, ok := tr[k]; !ok { return ErrIncomplete } }
Add198(p) ==
    /\ ~fatal /\ proc[p].pc = "add198r"
    /\ \E m \in Seen(p) :
           proc' = [proc EXCEPT ![p] =
                       IF \E k \in DOMAIN MapGet(m, LangEn) :
                              k \notin DOMAIN proc[p].terms
                       THEN [@ EXCEPT !.pc = "done", !.err = ErrIncomplete]
                       ELSE [@ EXCEPT !.pc = "add203"]]
    /\ UNCHANGED <<i18n, t, call, sel, out, err, fatal, prev>>

\* i18n[lang] = tr; return nil
Add203(p) ==
    /\ ~fatal /\ proc[p].pc = "add203w"
    /\ i18n' = Written(p)
    /\ proc' = [proc EXCEPT ![p] = [@ EXCEPT !.pc = "done", !.err = NoError]]
    /\ UNCHANGED <<t, call, sel, out, err, fatal, prev>>

\* go LocalTime(t, lang), up to its call of tr
GoLocalTime(p, lang) ==
    /\ ~fatal /\ proc[p].pc = "idle"
    /\ \E now2 \in Clock2(Now0) :
           proc' = [proc EXCEPT ![p] = [@ EXCEPT !.pc = "tr258",
                       !.op = "LocalTime", !.lang = lang,
                       !.ret = LocalTimeReturn(t, Now0, now2)]]
    /\ UNCHANGED <<i18n, t, call, sel, out, err, fatal, prev>>

\* ltr, ok := i18n[lang]
Tr258(p) ==
    /\ ~fatal /\ proc[p].pc = "tr258r"
    /\ \E m \in Seen(p) :
           proc' = [proc EXCEPT ![p] =
                       [@ EXCEPT !.pc = IF proc[p].lang \in DOMAIN m
                                        THEN "tr263" ELSE "tr261",
                                 !.ok = proc[p].lang \in DOMAIN m,
                                 !.ltr = MapGet(m, proc[p].lang)]]
    /\ UNCHANGED <<i18n, t, call, sel, out, err, fatal, prev>>

\* if !ok { ltr = i18n["en"] }
Tr261(p) ==
    /\ ~fatal /\ proc[p].pc = "tr261r"
    /\ \E m \in Seen(p) :
           proc' = [proc EXCEPT ![p] =
                       [@ EXCEPT !.pc = "tr263", !.ltr = MapGet(m, LangEn)]]
    /\ UNCHANGED <<i18n, t, call, sel, out, err, fatal, prev>>

\* return ltr[changeIfSing(id, nb)], and the return of LocalTime
Tr263(p) ==
    /\ ~fatal /\ proc[p].pc = "tr263"
    /\ LET r == proc[p].ret IN
       proc' = [proc EXCEPT ![p] =
                   [@ EXCEPT !.pc = "done",
                             !.text = Returned(r, MapGet(proc[p].ltr,
                                          changeIfSing(r.id, r.nb)))]]
    /\ UNCHANGED <<i18n, t, call, sel, out, err, fatal, prev>>

\* The runtime finds goroutine p accessing the map while another goroutine
\* writes it, or writing it while another goroutine accesses it, and throws.
Throw(p) ==
    /\ ~fatal
    /\ \/ Access(p) = "read" /\ Writers(p) # {}
       \/ Access(p) = "write" /\ \E q \in Procs \ {p} : Access(q) # "none"
    /\ fatal' = TRUE
    /\ UNCHANGED <<i18n, t, call, sel, out, err, proc, prev>>

NextConc ==
    \E p \in Procs :
        \/ \E lang \in ConcAddLangs, terms \in ConcTerms :
               GoAddTranslation(p, lang, terms)
        \/ Add192(p)
        \/ Begin(p, "add195", "add195r")
        \/ Add195(p)
        \/ Begin(p, "add198", "add198r")
        \/ Add198(p)
        \/ Begin(p, "add203", "add203w")
        \/ Add203(p)
        \/ \E lang \in ConcQueryLangs : GoLocalTime(p, lang)
        \/ Begin(p, "tr258", "tr258r")
        \/ Tr258(p)
        \/ Begin(p, "tr261", "tr261r")
        \/ Tr261(p)
        \/ Tr263(p)
        \/ Throw(p)

SpecConc == InitConc /\ [][NextConc]_vars

\* No write to the map overlaps a read or a write by another goroutine.
NoOverlap ==
    \A p, q \in Procs :
        (p # q /\ Access(p) = "write") => Access(q) = "none"

\* No two goroutines have registered the same code.
NoDoubleAdd ==
    \A p, q \in Procs :
        (/\ p # q
         /\ proc[p].op = "AddTranslation" /\ proc[p].pc = "done"
         /\ proc[q].op = "AddTranslation" /\ proc[q].pc = "done"
         /\ proc[p].err = NoError /\ proc[q].err = NoError)
        => proc[p].lang # proc[q].lang

\* C10 as claimed: the map is guarded, so that in every interleaving of
\* calls of LocalTime and AddTranslation no write overlaps a read or another
\* write, the runtime never throws, and two registrations of the same new
\* code do not both succeed.
C10_Original == NoOverlap /\ ~fatal /\ NoDoubleAdd

----------------------------------------------------------------------------
(* Properties of the map and of the numbers displayed. *)

----------------------------------------------------------------------------
(* Two calls of LocalTime by one caller, the second one for an older time:  *)
(* the caller keeps what the first call looked up (prev) and compares.      *)

\* The elapsed times compared: around the changes of unit below one day,
\* every whole day up to MaxDays, and the whole years.
PairElapsed ==
    SubDay
    \cup {d * 86400 : d \in 1 .. MaxDays}
    \cup {365 * y * 86400 : y \in 2 .. MaxYears}

PairTimes == {Now0 - e : e \in PairElapsed}

\* The code the two calls pass.
PairLang == LangFr

InitPair ==
    /\ i18n = I18nInit
    /\ t \in PairTimes
    /\ call = NoCall
    /\ sel = [id |-> 0, nb |-> 0]
    /\ out = <<>>
    /\ err = NoError
    /\ proc = [p \in Procs |-> Idle]
    /\ fatal = FALSE
    /\ prev = NoPrev

\* The caller keeps the result of its first call and takes an older time.
AskOlder ==
    /\ call.op = "LocalTime" /\ prev = NoPrev
    /\ prev' = [since |-> call.since, id |-> sel.id, nb |-> sel.nb]
    /\ \E older \in PairTimes : older < t /\ t' = older
    /\ UNCHANGED <<i18n, call, sel, out, err, proc, fatal>>

NextPair ==
    \/ CallLocalTime(PairLang)
    \/ AskOlder

SpecPair == InitPair /\ [][NextPair]_vars

\* The rank of the unit of an identifier.
UnitRank(id) ==
    IF id = JustNow THEN 1
    ELSE IF id \in {Minute, Minutes} THEN 2
    ELSE IF id \in {Hour, Hours} THEN 3
    ELSE IF id = Yesterday THEN 4
    ELSE IF id \in {Day, Days} THEN 5
    ELSE IF id \in {Week, Weeks} THEN 6
    ELSE IF id \in {Month, Months} THEN 7
    ELSE IF id \in {Year, Years} THEN 8
    ELSE 0

\* The second call has returned: the last call is about the older time.
Compared ==
    /\ prev # NoPrev /\ call.op = "LocalTime"
    /\ call.since - (Now0 - t) \in 0 .. MaxDrift
    /\ prev.since <= call.since

\* C12: the phrase never moves backwards as the time gets older: of two
\* elapsed times e1 <= e2, the unit selected for e1 ranks below the unit
\* selected for e2, or they are the same unit and the number for e1 is at
\* most the number for e2.
C12_Monotone ==
    Compared =>
        \/ UnitRank(prev.id) < UnitRank(sel.id)
        \/ UnitRank(prev.id) = UnitRank(sel.id) /\ prev.nb <= sel.nb

C12_Witness ==
    /\ Compared
    /\ prev.since \div 86400 = 21 /\ prev.id = Weeks /\ prev.nb = 3
    /\ call.since \div 86400 = 22 /\ sel.id = Month /\ sel.nb = 1
    /\ out = <<"il y a ", "1", " mois">>

====
